---- MODULE Spec2Model ----
(***************************************************************************)
(* London Musicals worker: the listing store, the admin API (create,       *)
(* update, delete, CSV import with upsert, delete-all, run-id migration)   *)
(* and the client-side availability predicate isShowActive.                *)
(*                                                                         *)
(* JavaScript strings are sequences of one-character strings; opaque text  *)
(* (URLs, descriptions, categories) is a sequence of one token.  SQL NULL  *)
(* and JavaScript undefined are the one-token sequences NULL / UNDEFINED.  *)
(* A number is written as its canonical decimal text.                      *)
(***************************************************************************)
EXTENDS Integers, Sequences, FiniteSets, TLC

VARIABLES
    musicals,   \* the musicals table: id -> row
    nextId,     \* AUTOINCREMENT counter of the table
    imp,        \* the running import requests: locals of the import loop
    mig,        \* the running migrate-run-ids request: locals of its loop
    response,   \* the response of the request that completed last
    writer,     \* id -> the statement that last wrote the row's run-id/fields
    prev,       \* the last imports on record, while only imports wrote
    view,       \* the public page's filter: show, fromDate, toDate, result
    env         \* the worker's configured secrets: ADMIN_USERNAME, ADMIN_PASSWORD

vars == <<musicals, nextId, imp, mig, response, writer, prev, view, env>>

\* ---------------------------------------------------------------- bounds
MaxId == 2          \* rows the table ever receives
MaxBatch == 2       \* rows in one import request
MaxLen == 3         \* characters in a title drawn for the run-id

\* ---------------------------------------------------------------- values
NULL == <<"NULL">>
UNDEFINED == <<"UNDEFINED">>
NaN == <<"NaN">>
EmptyStr == <<>>
\* a JavaScript number / SQL REAL: the token "num", then its decimal text
Num(text) == <<"num">> \o text
Zero == Num(<<"0">>)

Digit == <<"0", "1", "2", "3", "4", "5", "6", "7", "8", "9">>
DigitChars == {Digit[i] : i \in 1..10}
LowerChars == {"a", "b", "k", "v", "x"}
WhiteChars == {" "}

\* the value of a decimal digit character
DigitVal(c) == (CHOOSE i \in 1..10 : Digit[i] = c) - 1

\* UTF-16 code unit of a character, as the relational operators compare them
CharCode(c) ==
    CASE c = " " -> 32
      [] c = "!" -> 33
      [] c = "'" -> 39
      [] c = "-" -> 45
      [] c = "." -> 46
      [] c \in DigitChars -> 48 + DigitVal(c)
      [] c = "A" -> 65
      [] c = "B" -> 66
      [] c = "K" -> 75
      [] c = "V" -> 86
      [] c = "a" -> 97
      [] c = "b" -> 98
      [] c = "k" -> 107
      [] c = "v" -> 118
      [] c = "x" -> 120

\* s <= t on JavaScript strings: code-unit lexicographic order
RECURSIVE StrLE(_, _)
StrLE(s, t) ==
    IF s = <<>> THEN TRUE
    ELSE IF t = <<>> THEN FALSE
    ELSE IF CharCode(Head(s)) < CharCode(Head(t)) THEN TRUE
    ELSE IF CharCode(Head(s)) > CharCode(Head(t)) THEN FALSE
    ELSE StrLE(Tail(s), Tail(t))

\* the elements of s at the positions in keep, in order
SelectIdx(s, keep) ==
    LET F[i \in 0..Len(s)] ==
            IF i = 0 THEN <<>>
            ELSE IF i \in keep THEN Append(F[i - 1], s[i]) ELSE F[i - 1]
    IN F[Len(s)]

\* String.prototype.toLowerCase on the model's alphabet
ToLowerChar(c) ==
    CASE c = "A" -> "a"
      [] c = "B" -> "b"
      [] c = "K" -> "k"
      [] c = "V" -> "v"
      [] OTHER -> c

toLowerCase(s) == [i \in 1..Len(s) |-> ToLowerChar(s[i])]

\* String.prototype.trim
trim(s) ==
    LET nonWs == {i \in 1..Len(s) : s[i] \notin WhiteChars}
    IN IF nonWs = {} THEN <<>>
       ELSE LET lo == CHOOSE i \in nonWs : \A j \in nonWs : i <= j
                hi == CHOOSE i \in nonWs : \A j \in nonWs : j <= i
            IN SubSeq(s, lo, hi)

\* a JavaScript value used as a condition
Truthy(v) == v \notin {EmptyStr, NULL, UNDEFINED, NaN, Zero}

\* v || null
OrNull(v) == IF Truthy(v) THEN v ELSE NULL

\* ---------------------------------------------------------- generateRunId
\* .replace(/['']/g, '')
StripApostrophes(s) == SelectSeq(s, LAMBDA c : c # "'")

\* .replace(/[^a-z0-9\s-]/g, '')
StripSpecial(s) ==
    SelectSeq(s, LAMBDA c : c \in LowerChars \cup DigitChars \cup WhiteChars \cup {"-"})

\* .replace(/\s+/g, '-')
SpacesToHyphens(s) ==
    LET first == SelectIdx(s, {i \in 1..Len(s) :
                     ~(s[i] \in WhiteChars /\ i > 1 /\ s[i - 1] \in WhiteChars)})
    IN [i \in 1..Len(first) |-> IF first[i] \in WhiteChars THEN "-" ELSE first[i]]

\* .replace(/-+/g, '-')
CollapseHyphens(s) ==
    SelectIdx(s, {i \in 1..Len(s) : ~(s[i] = "-" /\ i > 1 /\ s[i - 1] = "-")})

\* a trim of the leading hyphen only
TrimLeadingHyphen(s) == IF s # <<>> /\ Head(s) = "-" THEN Tail(s) ELSE s

\* .replace(/^-|-$/g, '')
TrimHyphens(s) ==
    LET a == IF s # <<>> /\ Head(s) = "-" THEN Tail(s) ELSE s
    IN IF a # <<>> /\ a[Len(a)] = "-" THEN SubSeq(a, 1, Len(a) - 1) ELSE a

normalize(str) ==
    TrimHyphens(CollapseHyphens(SpacesToHyphens(StripSpecial(
        StripApostrophes(toLowerCase(str))))))

\* `${x}` of a value interpolated into a template string
Interpolate(v) ==
    IF v = UNDEFINED THEN <<"u", "n", "d", "e", "f", "i", "n", "e", "d">>
    ELSE IF v = NULL THEN <<"n", "u", "l", "l">>
    ELSE v

\* str.toLowerCase() throws a TypeError when str is undefined or null
generateRunIdThrows(title, venueName) ==
    title \in {NULL, UNDEFINED} \/ venueName \in {NULL, UNDEFINED}

generateRunId(title, venueName, startDate) ==
    normalize(title) \o <<"-">> \o normalize(venueName) \o <<"-">>
        \o Interpolate(startDate)

\* ------------------------------------------------------------- parseFloat
\* how many leading elements of s lie in set
PrefixLen(s, set) ==
    LET stop == {i \in 1..Len(s) : s[i] \notin set}
    IN IF stop = {} THEN Len(s)
       ELSE (CHOOSE i \in stop : \A j \in stop : i <= j) - 1

\* the decimal text of a number given its integer and fraction digits
Canonical(intDigits, fracDigits) ==
    LET lead == PrefixLen(intDigits, {"0"})
        int0 == SubSeq(intDigits, lead + 1, Len(intDigits))
        int == IF int0 = <<>> THEN <<"0">> ELSE int0
        sig == {i \in 1..Len(fracDigits) : fracDigits[i] # "0"}
        last == IF sig = {} THEN 0 ELSE CHOOSE i \in sig : \A j \in sig : j <= i
        frac == SubSeq(fracDigits, 1, last)
    IN IF frac = <<>> THEN int ELSE int \o <<".">> \o frac

\* parseFloat(text): leading white space is skipped, then the longest prefix
\* that is a decimal literal is converted; NaN when there is none
parseFloat(text) ==
    LET t == SubSeq(text, PrefixLen(text, WhiteChars) + 1, Len(text))
        neg == t # <<>> /\ Head(t) = "-"
        u == IF neg THEN Tail(t) ELSE t
        intLen == PrefixLen(u, DigitChars)
        rest == SubSeq(u, intLen + 1, Len(u))
        hasDot == rest # <<>> /\ Head(rest) = "."
        fracLen == IF hasDot THEN PrefixLen(Tail(rest), DigitChars) ELSE 0
        frac == IF hasDot THEN SubSeq(Tail(rest), 1, fracLen) ELSE <<>>
        digits == Canonical(SubSeq(u, 1, intLen), frac)
    IN IF intLen = 0 /\ fracLen = 0 THEN NaN
       ELSE IF digits = <<"0">> THEN Zero
       ELSE IF neg THEN Num(<<"-">> \o digits)
       ELSE Num(digits)

\* parseFloat(row.price) || 0
ParseOrZero(text) ==
    IF Truthy(text) /\ parseFloat(text) # NaN THEN parseFloat(text) ELSE Zero

\* row.price ? parseFloat(row.price) : null
ParseOrNull(text) == IF Truthy(text) THEN parseFloat(text) ELSE NULL

\* ------------------------------------------------------------------ dates
TwoDigits(n) == <<Digit[(n \div 10) + 1], Digit[(n % 10) + 1]>>

\* a calendar date as the text YYYY-MM-DD
IsoDate(y, m, d) ==
    <<Digit[(y \div 1000) + 1], Digit[((y \div 100) % 10) + 1],
      Digit[((y \div 10) % 10) + 1], Digit[(y % 10) + 1]>>
    \o <<"-">> \o TwoDigits(m) \o <<"-">> \o TwoDigits(d)

\* ------------------------------------------------------------- the table
WestEnd == <<"West End">>
OffWestEnd == <<"Off West End">>
DramaSchool == <<"Drama School">>
Opera == <<"Opera">>

\* CHECK (type IN ('West End', 'Off West End', 'Drama School'))
Types == {WestEnd, OffWestEnd, DramaSchool}

\* the columns a create, an update or an import row binds, run_id apart
DataFields ==
    {"title", "venue_name", "venue_address", "type", "start_date", "end_date",
     "description", "ticket_url", "price_from", "schedule", "lottery_url",
     "lottery_price", "rush_url", "rush_price"}

\* NOT NULL columns
Required == {"title", "venue_name", "type", "start_date"}

\* the values an admin create / update binds, from the request's JSON body
AdminValues(data) ==
    [f \in DataFields |->
        IF f \in Required THEN data[f] ELSE OrNull(data[f])]

\* the values an import row binds
ImportValues(row) ==
    [f \in DataFields |->
        IF f \in Required THEN row[f]
        ELSE IF f \in {"price_from", "lottery_price", "rush_price"}
             THEN ParseOrNull(row[f])
        ELSE OrNull(row[f])]

\* D1 sends the bound parameters as JSON, where NaN is written null
Bind(values) == [f \in DOMAIN values |-> IF values[f] = NaN THEN NULL ELSE values[f]]

\* D1's bind() rejects undefined
BindThrows(values) == \E f \in DOMAIN values : values[f] = UNDEFINED

\* the table's NOT NULL and CHECK constraints on the values of one row
ConstraintError(values) ==
    IF \E f \in Required : values[f] = NULL THEN "NOT NULL constraint failed"
    ELSE IF values["type"] \notin Types THEN "CHECK constraint failed"
    ELSE "ok"

\* the table without its unique index
UniqueViolationOff(table, id, runId) == FALSE

\* the unique index idx_musicals_run_id: runId is held by a row other than id
UniqueViolation(table, id, runId) ==
    /\ runId # NULL
    /\ \E j \in DOMAIN table : j # id /\ table[j].run_id = runId

\* a lookup that never finds the listing
SelectByRunIdNever(table, runId) == {}

\* SELECT id FROM musicals WHERE run_id = ?  (.first(): the ids of the first
\* row, none when first() gives null)
SelectByRunId(table, runId) ==
    LET hits == {j \in DOMAIN table : table[j].run_id = runId}
    IN IF hits = {} THEN {}
       ELSE {CHOOSE j \in hits : \A k \in hits : j <= k}

\* INSERT without the run_id column, as before the column existed
NewRowNoRunId(values, runId) ==
    [f \in DataFields \cup {"run_id"} |->
        IF f = "run_id" THEN NULL ELSE Bind(values)[f]]

\* the row INSERT stores
NewRow(values, runId) ==
    [f \in DataFields \cup {"run_id"} |->
        IF f = "run_id" THEN runId ELSE Bind(values)[f]]

\* an INSERT into a table without the unique index
InsertErrorNoIndex(table, values, runId) ==
    IF BindThrows(values) \/ runId = UNDEFINED THEN "D1_TYPE_ERROR"
    ELSE ConstraintError(Bind(values))

\* INSERT INTO musicals (...) VALUES (...): the error it raises, or "ok"
InsertError(table, values, runId) ==
    IF BindThrows(values) \/ runId = UNDEFINED THEN "D1_TYPE_ERROR"
    ELSE IF ConstraintError(Bind(values)) # "ok" THEN ConstraintError(Bind(values))
    ELSE IF UniqueViolation(table, 0, runId) THEN "UNIQUE constraint failed"
    ELSE "ok"

\* UPDATE musicals SET <all columns>, run_id = ? WHERE id = ?
UpdateByIdError(table, id, values, runId) ==
    IF BindThrows(values) THEN "D1_TYPE_ERROR"
    ELSE IF id \notin DOMAIN table THEN "ok"
    ELSE IF ConstraintError(Bind(values)) # "ok" THEN ConstraintError(Bind(values))
    ELSE IF UniqueViolation(table, id, runId) THEN "UNIQUE constraint failed"
    ELSE "ok"

\* an update that creates the listing when no row has the id
UpdateByIdUpsert(table, id, values, runId) ==
    [j \in DOMAIN table \cup {id} |-> IF j = id THEN NewRow(values, runId) ELSE table[j]]

\* an update that leaves the run_id column as it was
UpdateByIdKeepRunId(table, id, values, runId) ==
    IF id \in DOMAIN table
    THEN [table EXCEPT ![id] = NewRow(values, table[id].run_id)]
    ELSE table

UpdateById(table, id, values, runId) ==
    IF id \in DOMAIN table
    THEN [table EXCEPT ![id] = NewRow(values, runId)]
    ELSE table

\* UPDATE musicals SET <all columns but run_id> WHERE run_id = ?
UpdateByRunIdError(table, values, runId) ==
    IF BindThrows(values) THEN "D1_TYPE_ERROR"
    ELSE IF SelectByRunId(table, runId) = {} THEN "ok"
    ELSE ConstraintError(Bind(values))

\* an update without its WHERE clause
UpdateByRunIdAll(table, values, runId) ==
    [j \in DOMAIN table |-> NewRow(values, table[j].run_id)]

\* an update that patches: a column the row leaves empty keeps its value
UpdateByRunIdMerge(table, values, runId) ==
    [j \in DOMAIN table |->
        IF table[j].run_id = runId
        THEN [f \in DataFields \cup {"run_id"} |->
                IF f = "run_id" \/ Bind(values)[f] = NULL THEN table[j][f]
                ELSE Bind(values)[f]]
        ELSE table[j]]

UpdateByRunId(table, values, runId) ==
    [j \in DOMAIN table |->
        IF table[j].run_id = runId THEN NewRow(values, runId) ELSE table[j]]

\* ----------------------------------------------------------------- inputs
Date1 == IsoDate(2025, 1, 1)
Date2 == IsoDate(2025, 6, 30)

\* a request body with every optional field left empty
BlankBody ==
    [run_id |-> EmptyStr, title |-> <<"A">>, venue_name |-> <<"V">>,
     venue_address |-> EmptyStr, type |-> WestEnd, start_date |-> Date1,
     end_date |-> EmptyStr, description |-> EmptyStr, ticket_url |-> EmptyStr,
     price_from |-> EmptyStr, schedule |-> EmptyStr, lottery_url |-> EmptyStr,
     lottery_price |-> EmptyStr, rush_url |-> EmptyStr, rush_price |-> EmptyStr]

\* CSV rows as parseCSV hands them to the import: every field is text
RowA == [BlankBody EXCEPT !.price_from = <<"1", "2">>, !.ticket_url = <<"url1">>]
\* the same run as RowA under another spelling of the title, other values
RowA2 == [BlankBody EXCEPT !.title = <<"a", "!">>, !.end_date = Date2,
            !.price_from = <<"x">>, !.rush_price = <<" ">>,
            !.lottery_price = <<"0", "7", ".", "5", "0", "x">>,
            !.description = <<"desc">>]
\* a row that carries its own run-id
RowK == [BlankBody EXCEPT !.run_id = <<" ", "k", " ">>, !.title = <<"B", " ", "b">>,
            !.type = OffWestEnd, !.rush_price = <<"0">>]
\* a row the table's CHECK rejects
RowOpera == [BlankBody EXCEPT !.type = Opera, !.run_id = <<" ">>]
\* a row posted without a venue_name field
RowNoVenue == [BlankBody EXCEPT !.title = <<"K">>, !.venue_name = UNDEFINED]

Rows == {RowA, RowA2, RowK, RowOpera, RowNoVenue}

\* the record lists of import requests
Batches == UNION {[1..n -> Rows] : n \in 0..MaxBatch}

\* the record lists of one row, and the empty one
SingleRowBatches == {<<>>} \cup {<<row>> : row \in Rows}

\* JSON bodies of admin create / update: prices are numbers or null
DataA == [BlankBody EXCEPT !.price_from = Num(<<"1", "2">>), !.end_date = NULL]
DataB == [BlankBody EXCEPT !.title = <<"B", " ", "b">>, !.type = DramaSchool,
            !.price_from = Zero, !.end_date = Date2, !.schedule = <<"sched">>]
DataOpera == [BlankBody EXCEPT !.type = Opera, !.title = <<"K">>]
\* a body without a title field
DataNoTitle == [BlankBody EXCEPT !.title = UNDEFINED]

Bodies == {DataA, DataB, DataOpera, DataNoTitle}

\* rows stored before the run_id column existed
Legacy(title, start) ==
    [NewRow(AdminValues([BlankBody EXCEPT !.title = title, !.start_date = start]),
            NULL) EXCEPT !.price_from = Num(<<"2", "9", ".", "5">>)]

AdminPassword == <<"secret">>
Passwords == {AdminPassword, <<"guess">>}

\* env.ADMIN_USERNAME and env.ADMIN_PASSWORD of the deployment
Configured == [username |-> <<"admin">>, password |-> AdminPassword]

Procs == {"p1"}

\* ------------------------------------------------------------------ state
IdleImport ==
    [pc |-> "idle", records |-> <<>>, i |-> 0, runId |-> NULL, existing |-> {},
     inserted |-> 0, updated |-> 0, errors |-> <<>>, fresh |-> FALSE]

IdleMigrate == [pc |-> "idle", results |-> <<>>, i |-> 0, migrated |-> 0]

NoResponse == [status |-> 0, body |-> "none"]

\* the table has been written by requests other than the imports on record:
\* nothing is known of earlier imports, and nothing will be
Disturbed == [quiet |-> FALSE, runs |-> <<>>]
\* only imports have written the table, none of them is on record
Quiet == [quiet |-> TRUE, runs |-> <<>>]

NoView == [show |-> <<>>, fromDate |-> <<>>, toDate |-> <<>>,
           rendered |-> FALSE, active |-> FALSE]

\* a JSON response: its status and the shape of its body, "error" for
\* { error: message } and "result" for any other object
Json(status, body) == [status |-> status, body |-> body]

\* a catch that answers in plain text
ServerErrorPlain(message) == [status |-> 500, body |-> "text"]

\* catch (error) of handleAdminAPI
ServerError(message) == Json(500, "error")

Init ==
    /\ musicals \in { <<>>,
                       <<Legacy(<<"A">>, Date1), Legacy(<<"a", "'">>, Date1)>>,
                       <<Legacy(<<"A">>, Date1), Legacy(<<"K">>, Date2)>> }
    /\ nextId = Len(musicals) + 1
    /\ imp = [p \in Procs |-> IdleImport]
    /\ mig = IdleMigrate
    /\ response = NoResponse
    /\ writer = [j \in DOMAIN musicals |-> "legacy"]
    /\ prev = Disturbed
    /\ env = Configured
    /\ view = NoView

\* the table with row id removed
Without(table, ids) == [j \in DOMAIN table \ ids |-> table[j]]

\* the table with one more row under id
With(table, id, row) ==
    [j \in DOMAIN table \cup {id} |-> IF j = id THEN row ELSE table[j]]

\* ------------------------------------------------- POST /admin/api/musicals
AdminCreate(data) ==
    /\ UNCHANGED <<imp, mig, view, env>>
    /\ prev' = Disturbed
    /\ IF generateRunIdThrows(data.title, data.venue_name)
       THEN /\ response' = ServerError("TypeError")
            /\ UNCHANGED <<musicals, nextId, writer>>
       ELSE LET runId == generateRunId(data.title, data.venue_name, data.start_date)
                err == InsertError(musicals, AdminValues(data), runId)
            IN IF err # "ok"
               THEN /\ response' = ServerError(err)
                    /\ UNCHANGED <<musicals, nextId, writer>>
               ELSE /\ nextId <= MaxId
                    /\ musicals' = With(musicals, nextId, NewRow(AdminValues(data), runId))
                    /\ writer' = With(writer, nextId, "create")
                    /\ nextId' = nextId + 1
                    /\ response' = Json(201, "result")

\* -------------------------------------------- PUT /admin/api/musicals/:id
\* an update that writes the title before the statement is checked
AdminUpdateTitleFirst(id, data) ==
    /\ UNCHANGED <<imp, mig, view, nextId, env>>
    /\ prev' = Disturbed
    /\ IF generateRunIdThrows(data.title, data.venue_name)
       THEN /\ response' = ServerError("TypeError")
            /\ UNCHANGED <<musicals, writer>>
       ELSE LET runId == generateRunId(data.title, data.venue_name, data.start_date)
                err == UpdateByIdError(musicals, id, AdminValues(data), runId)
            IN IF err # "ok"
               THEN /\ response' = ServerError(err)
                    /\ musicals' = [j \in DOMAIN musicals |->
                                      IF j = id THEN [musicals[j] EXCEPT !.title = <<"x">>]
                                      ELSE musicals[j]]
                    /\ UNCHANGED writer
               ELSE /\ musicals' = UpdateById(musicals, id, AdminValues(data), runId)
                    /\ writer' = [j \in DOMAIN writer |->
                                    IF j = id THEN "update" ELSE writer[j]]
                    \* the row read back: JSON null when no row has the id
                    /\ response' = IF id \in DOMAIN musicals THEN Json(200, "result")
                                   ELSE Json(200, "null")

AdminUpdate(id, data) ==
    /\ UNCHANGED <<imp, mig, view, nextId, env>>
    /\ prev' = Disturbed
    /\ IF generateRunIdThrows(data.title, data.venue_name)
       THEN /\ response' = ServerError("TypeError")
            /\ UNCHANGED <<musicals, writer>>
       ELSE LET runId == generateRunId(data.title, data.venue_name, data.start_date)
                err == UpdateByIdError(musicals, id, AdminValues(data), runId)
            IN IF err # "ok"
               THEN /\ response' = ServerError(err)
                    /\ UNCHANGED <<musicals, writer>>
               ELSE /\ musicals' = UpdateById(musicals, id, AdminValues(data), runId)
                    /\ writer' = [j \in DOMAIN writer |->
                                    IF j = id THEN "update" ELSE writer[j]]
                    \* the row read back: JSON null when no row has the id
                    /\ response' = IF id \in DOMAIN musicals THEN Json(200, "result")
                                   ELSE Json(200, "null")

\* ----------------------------------------- DELETE /admin/api/musicals/:id
AdminDelete(id) ==
    /\ UNCHANGED <<imp, mig, view, nextId, env>>
    /\ prev' = Disturbed
    /\ musicals' = Without(musicals, {id})
    /\ writer' = Without(writer, {id})
    /\ response' = Json(200, "result")

\* ------------------------------------------------ POST /admin/api/delete-all
\* delete-all that does not look at the body's password
DeleteAllNoConfirm(password) ==
    /\ UNCHANGED <<imp, mig, view, nextId, env>>
    /\ musicals' = <<>>
    /\ writer' = <<>>
    /\ prev' = Disturbed
    /\ response' = Json(200, "result")

DeleteAll(password) ==
    /\ UNCHANGED <<imp, mig, view, nextId, env>>
    /\ IF password # env.password
       THEN /\ response' = Json(401, "error")
            /\ UNCHANGED <<musicals, writer, prev>>
       ELSE /\ musicals' = <<>>
            /\ writer' = <<>>
            /\ prev' = Disturbed
            /\ response' = Json(200, "result")

\* ------------------------------------------ POST /admin/api/musicals/import
\* the row carries a run_id of its own: row.run_id && row.run_id.trim()
HasOwnRunId(row) == Truthy(row.run_id) /\ Truthy(trim(row.run_id))

\* the row's own run_id taken as it is, not trimmed
ImportRunIdNoTrim(row) ==
    IF HasOwnRunId(row) THEN row.run_id
    ELSE generateRunId(row.title, row.venue_name, row.start_date)

\* the run-id the import looks a row up by and writes it under
ImportRunId(row) ==
    IF HasOwnRunId(row) THEN trim(row.run_id)
    ELSE generateRunId(row.title, row.venue_name, row.start_date)

\* the error labelled with the row's run_id instead of its title
PushErrorRunId(errors, row, message) ==
    Append(errors, [row |-> row.run_id, error |-> message])

\* errors.push({ row: row.title, error: err.message })
PushError(errors, row, message) ==
    Append(errors, [row |-> row.title, error |-> message])

\* the rows of a request have pairwise distinct run-ids, none of them stored
Fresh(table, records) ==
    /\ \A i \in 1..Len(records) :
          HasOwnRunId(records[i])
              \/ ~generateRunIdThrows(records[i].title, records[i].venue_name)
    /\ \A i, j \in 1..Len(records) :
          i # j => ImportRunId(records[i]) # ImportRunId(records[j])
    /\ \A i \in 1..Len(records), j \in DOMAIN table :
          table[j].run_id # ImportRunId(records[i])

OthersImporting(p) == \E q \in Procs \ {p} : imp[q].pc # "idle"

\* what is known of earlier imports once import p has written
AfterImportWrite(p) == IF OthersImporting(p) THEN Disturbed ELSE prev

ImportStart(p, records) ==
    /\ imp[p].pc = "idle"
    /\ mig.pc = "idle"
    /\ imp' = [imp EXCEPT ![p] =
                 [IdleImport EXCEPT !.pc = "loop", !.records = records, !.i = 1,
                                    !.fresh = Fresh(musicals, records)]]
    /\ prev' = IF ~prev.quiet \/ OthersImporting(p) THEN Disturbed
               ELSE IF prev.runs # <<>>
                       /\ prev.runs[Len(prev.runs)].records = records
                    THEN prev
               ELSE Quiet
    /\ UNCHANGED <<musicals, nextId, mig, response, writer, view, env>>

\* a lookup that never sees a stored listing
ImportLookupBlind(p) ==
    LET st == imp[p]
        row == st.records[st.i]
    IN /\ st.pc = "loop"
       /\ st.i <= Len(st.records)
       /\ IF ~HasOwnRunId(row) /\ generateRunIdThrows(row.title, row.venue_name)
          THEN imp' = [imp EXCEPT ![p].errors = PushError(st.errors, row, "TypeError"),
                                  ![p].i = st.i + 1]
          ELSE imp' = [imp EXCEPT ![p].pc = "write",
                                  ![p].runId = ImportRunId(row),
                                  ![p].existing = {}]
       /\ UNCHANGED <<musicals, nextId, mig, response, writer, prev, view, env>>

\* lines 191-194: determine the run-id, look the listing up
ImportLookup(p) ==
    LET st == imp[p]
        row == st.records[st.i]
    IN /\ st.pc = "loop"
       /\ st.i <= Len(st.records)
       /\ IF ~HasOwnRunId(row) /\ generateRunIdThrows(row.title, row.venue_name)
          THEN imp' = [imp EXCEPT ![p].errors = PushError(st.errors, row, "TypeError"),
                                  ![p].i = st.i + 1]
          ELSE imp' = [imp EXCEPT ![p].pc = "write",
                                  ![p].runId = ImportRunId(row),
                                  ![p].existing = SelectByRunId(musicals, ImportRunId(row))]
       /\ UNCHANGED <<musicals, nextId, mig, response, writer, prev, view, env>>

\* lines 196-223: UPDATE ... WHERE run_id = ?
ImportUpdate(p) ==
    LET st == imp[p]
        row == st.records[st.i]
        err == UpdateByRunIdError(musicals, ImportValues(row), st.runId)
    IN /\ st.pc = "write"
       /\ st.existing # {}
       /\ UNCHANGED <<nextId, mig, response, view, env>>
       /\ prev' = AfterImportWrite(p)
       /\ IF err # "ok"
          THEN /\ imp' = [imp EXCEPT ![p].errors = PushError(st.errors, row, err),
                                     ![p].i = st.i + 1, ![p].pc = "loop",
                                     ![p].runId = NULL, ![p].existing = {}]
               /\ UNCHANGED <<musicals, writer>>
          ELSE /\ musicals' = UpdateByRunId(musicals, ImportValues(row), st.runId)
               /\ writer' = [j \in DOMAIN writer |->
                               IF musicals[j].run_id # st.runId THEN writer[j]
                               ELSE IF HasOwnRunId(row) THEN "import_own"
                               ELSE "import_gen"]
               /\ imp' = [imp EXCEPT ![p].updated = st.updated + 1,
                                     ![p].i = st.i + 1, ![p].pc = "loop",
                                     ![p].runId = NULL, ![p].existing = {}]

\* an insert that counts the row before the statement has run
ImportInsertCountsFirst(p) ==
    LET st == imp[p]
        row == st.records[st.i]
        err == InsertError(musicals, ImportValues(row), st.runId)
    IN /\ st.pc = "write"
       /\ st.existing = {}
       /\ UNCHANGED <<mig, response, view, env>>
       /\ prev' = AfterImportWrite(p)
       /\ IF err # "ok"
          THEN /\ imp' = [imp EXCEPT ![p].errors = PushError(st.errors, row, err),
                                     ![p].inserted = st.inserted + 1,
                                     ![p].i = st.i + 1, ![p].pc = "loop",
                                     ![p].runId = NULL, ![p].existing = {}]
               /\ UNCHANGED <<musicals, nextId, writer>>
          ELSE /\ nextId <= MaxId
               /\ musicals' = With(musicals, nextId, NewRow(ImportValues(row), st.runId))
               /\ writer' = With(writer, nextId,
                                 IF HasOwnRunId(row) THEN "import_own" ELSE "import_gen")
               /\ nextId' = nextId + 1
               /\ imp' = [imp EXCEPT ![p].inserted = st.inserted + 1,
                                     ![p].i = st.i + 1, ![p].pc = "loop",
                                     ![p].runId = NULL, ![p].existing = {}]

\* lines 224-247: INSERT
ImportInsert(p) ==
    LET st == imp[p]
        row == st.records[st.i]
        err == InsertError(musicals, ImportValues(row), st.runId)
    IN /\ st.pc = "write"
       /\ st.existing = {}
       /\ UNCHANGED <<mig, response, view, env>>
       /\ prev' = AfterImportWrite(p)
       /\ IF err # "ok"
          THEN /\ imp' = [imp EXCEPT ![p].errors = PushError(st.errors, row, err),
                                     ![p].i = st.i + 1, ![p].pc = "loop",
                                     ![p].runId = NULL, ![p].existing = {}]
               /\ UNCHANGED <<musicals, nextId, writer>>
          ELSE /\ nextId <= MaxId
               /\ musicals' = With(musicals, nextId, NewRow(ImportValues(row), st.runId))
               /\ writer' = With(writer, nextId,
                                 IF HasOwnRunId(row) THEN "import_own" ELSE "import_gen")
               /\ nextId' = nextId + 1
               /\ imp' = [imp EXCEPT ![p].inserted = st.inserted + 1,
                                     ![p].i = st.i + 1, ![p].pc = "loop",
                                     ![p].runId = NULL, ![p].existing = {}]

\* what a completed import leaves to compare a repetition with
Summary(st, table) ==
    [records |-> st.records, fresh |-> st.fresh, inserted |-> st.inserted,
     updated |-> st.updated, errors |-> st.errors, after |-> table]

\* line 253: the loop is over, the counts are returned
ImportFinish(p) ==
    LET st == imp[p]
    IN /\ st.pc = "loop"
       /\ st.i > Len(st.records)
       /\ response' = Json(200, "result")
       /\ imp' = [imp EXCEPT ![p] = IdleImport]
       /\ prev' = IF ~prev.quiet \/ OthersImporting(p) THEN Disturbed
                  ELSE [quiet |-> TRUE,
                        runs |-> IF prev.runs = <<>> THEN <<Summary(st, musicals)>>
                                 ELSE <<prev.runs[Len(prev.runs)], Summary(st, musicals)>>]
       /\ UNCHANGED <<musicals, nextId, mig, writer, view, env>>

\* ----------------------------------------- POST /admin/api/migrate-run-ids
\* SELECT id, title, venue_name, start_date FROM musicals WHERE run_id IS NULL
LegacyRows(table) ==
    LET ids == {j \in DOMAIN table : table[j].run_id = NULL}
        F[k \in 0..MaxId] ==
            IF k = 0 THEN <<>>
            ELSE IF k \in ids
                 THEN Append(F[k - 1], [id |-> k, title |-> table[k].title,
                                        venue_name |-> table[k].venue_name,
                                        start_date |-> table[k].start_date])
                 ELSE F[k - 1]
    IN F[MaxId]

MigrateStart ==
    /\ mig.pc = "idle"
    /\ \A p \in Procs : imp[p].pc = "idle"
    /\ mig' = [pc |-> "loop", results |-> LegacyRows(musicals), i |-> 1, migrated |-> 0]
    /\ UNCHANGED <<musicals, nextId, imp, response, writer, prev, view, env>>

\* lines 274-278: UPDATE musicals SET run_id = ? WHERE id = ?
MigrateRow ==
    LET row == mig.results[mig.i]
        runId == generateRunId(row.title, row.venue_name, row.start_date)
    IN /\ mig.pc = "loop"
       /\ mig.i <= Len(mig.results)
       /\ UNCHANGED <<nextId, imp, view, env>>
       /\ prev' = Disturbed
       /\ IF row.id \in DOMAIN musicals /\ UniqueViolation(musicals, row.id, runId)
          THEN /\ response' = ServerError("UNIQUE constraint failed")
               /\ mig' = IdleMigrate
               /\ UNCHANGED <<musicals, writer>>
          ELSE /\ musicals' = [j \in DOMAIN musicals |->
                                 IF j = row.id THEN [musicals[j] EXCEPT !.run_id = runId]
                                 ELSE musicals[j]]
               /\ writer' = [j \in DOMAIN writer |->
                               IF j = row.id THEN "migrate" ELSE writer[j]]
               /\ mig' = [mig EXCEPT !.i = mig.i + 1, !.migrated = mig.migrated + 1]
               /\ UNCHANGED response

MigrateFinish ==
    /\ mig.pc = "loop"
    /\ mig.i > Len(mig.results)
    /\ response' = Json(200, "result")
    /\ mig' = IdleMigrate
    /\ UNCHANGED <<musicals, nextId, imp, writer, prev, view, env>>

\* ------------------------------------------------------------------- Spec
Next ==
    \/ \E data \in Bodies : AdminCreate(data)
    \/ \E id \in 1..MaxId, data \in Bodies : AdminUpdate(id, data)
    \/ \E id \in 1..MaxId : AdminDelete(id)
    \/ \E password \in Passwords : DeleteAll(password)
    \/ \E p \in Procs, records \in SingleRowBatches : ImportStart(p, records)
    \/ \E p \in Procs : ImportLookup(p)
    \/ \E p \in Procs : ImportUpdate(p)
    \/ \E p \in Procs : ImportInsert(p)
    \/ \E p \in Procs : ImportFinish(p)
    \/ MigrateStart
    \/ MigrateRow
    \/ MigrateFinish

\* every admin request, interleaved at each await; imports of one row
Spec == Init /\ [][Next]_vars

\* ------------------------------------------------- imports, one after another
\* an empty table that only import requests write
InitImport ==
    /\ musicals = <<>>
    /\ nextId = 1
    /\ imp = [p \in Procs |-> IdleImport]
    /\ mig = IdleMigrate
    /\ response = NoResponse
    /\ writer = <<>>
    /\ prev = Quiet
    /\ env = Configured
    /\ view = NoView

NextImport ==
    \/ \E p \in Procs, records \in Batches : ImportStart(p, records)
    \/ \E p \in Procs : ImportLookup(p)
    \/ \E p \in Procs : ImportUpdate(p)
    \/ \E p \in Procs : ImportInsert(p)
    \/ \E p \in Procs : ImportFinish(p)

SpecImport == InitImport /\ [][NextImport]_vars

\* ------------------------------------------------- the public page filter
\* parseInt of a run of decimal digits
RECURSIVE parseInt(_)
parseInt(s) ==
    IF s = <<>> THEN 0
    ELSE 10 * parseInt(SubSeq(s, 1, Len(s) - 1)) + DigitVal(s[Len(s)])

\* dateStr.split('-') of a YYYY-MM-DD text
SplitDate(dateStr) ==
    <<SubSeq(dateStr, 1, 4), SubSeq(dateStr, 6, 7), SubSeq(dateStr, 9, 10)>>

\* new Date(y, m - 1, d).getDay(): 0 = Sunday ... 6 = Saturday
getDay(y, m, d) ==
    LET t == <<0, 3, 2, 5, 0, 3, 5, 1, 4, 6, 2, 4>>
        yy == IF m < 3 THEN y - 1 ELSE y
    IN (yy + (yy \div 4) - (yy \div 100) + (yy \div 400) + t[m] + d) % 7

\* the weekday of the evening before, as a date parsed in UTC and read west of it
getDayOfWeekUTC(dateStr) ==
    LET parts == SplitDate(dateStr)
    IN (getDay(parseInt(parts[1]), parseInt(parts[2]), parseInt(parts[3])) + 6) % 7

getDayOfWeek(dateStr) ==
    LET parts == SplitDate(dateStr)
    IN getDay(parseInt(parts[1]), parseInt(parts[2]), parseInt(parts[3]))

dayKeys == <<"sun", "mon", "tue", "wed", "thu", "fri", "sat">>

\* hasPerformance(value): a non-empty time text, or a true flag of the old format
JsFalse == <<"false (boolean)">>
JsTrue == <<"true (boolean)">>
hasPerformance(value) == value \notin {NULL, UNDEFINED, EmptyStr, JsFalse}

\* schedule texts a listing may hold
Evening == [m |-> NULL, e |-> <<"19:30">>]
Matinee == [m |-> <<"14:30">>, e |-> NULL]
Dark == [m |-> NULL, e |-> NULL]
\* every day but Wednesday, Thursday listed without a performance
SchedNoWed == <<"{sun,mon,tue,thu:dark,fri,sat}">>
\* a performance every day
SchedDaily == <<"{sun,mon,tue,wed,thu,fri,sat}">>
SchedBroken == <<"{mon:">>
SchedNull == <<"null">>
\* the old format of flags; Wednesday listed with an empty time and a false flag
SchedOld == <<"{tue:true,wed:'',thu:true}">>
\* JSON that is no object
SchedNumber == <<"5">>

ScheduleTexts == {SchedNoWed, SchedDaily, SchedBroken, SchedNull, SchedOld, SchedNumber}

\* JSON.stringify of one day's entry { m: ..., e: ... }, as one token
StringifyCell(cell) ==
    CASE cell = Evening -> "{m:null,e:'19:30'}"
      [] cell = Matinee -> "{m:'14:30',e:null}"
      [] cell = [m |-> <<"14:30">>, e |-> <<"19:30">>] -> "{m:'14:30',e:'19:30'}"

\* JSON.parse of such a token
ParseCell(token) ==
    CASE token = "{m:null,e:'19:30'}" -> Evening
      [] token = "{m:'14:30',e:null}" -> Matinee
      [] token = "{m:'14:30',e:'19:30'}" -> [m |-> <<"14:30">>, e |-> <<"19:30">>]

\* JSON.parse(show.schedule) on those texts: an object (its keys and their
\* values), null, or a SyntaxError
JSONParse(text) ==
    CASE text = SchedNoWed ->
            [kind |-> "object",
             value |-> [sun |-> Matinee, mon |-> Evening, tue |-> Evening,
                        thu |-> Dark, fri |-> Evening, sat |-> Evening]]
      [] text = SchedDaily ->
            [kind |-> "object",
             value |-> [k \in {dayKeys[i] : i \in 1..7} |-> Evening]]
      [] text = SchedNull -> [kind |-> "null", value |-> <<>>]
      [] text = SchedOld ->
            [kind |-> "object",
             value |-> [tue |-> [m |-> JsFalse, e |-> JsTrue],
                        wed |-> [m |-> EmptyStr, e |-> JsFalse],
                        thu |-> [m |-> JsTrue, e |-> NULL]]]
      \* a number has no properties: every key lookup gives undefined
      [] text = SchedNumber -> [kind |-> "object", value |-> <<>>]
      \* a text written by JSON.stringify: key and value tokens between braces
      [] Len(text) >= 2 /\ text[1] = "{" /\ text[Len(text)] = "}" ->
            [kind |-> "object",
             value |-> [k \in {text[2 * n] : n \in 1..((Len(text) - 2) \div 2)} |->
                          ParseCell(text[1 + 2 * (CHOOSE n \in 1..((Len(text) - 2) \div 2) :
                                                    text[2 * n] = k)])]]
      [] OTHER -> [kind |-> "SyntaxError", value |-> <<>>]

SentinelEnd == IsoDate(9999, 12, 31)

\* a schedule check that treats an exception as no performance
NoPerformanceFailClosed(show, fromDate) ==
    LET schedule == JSONParse(show.schedule)
        dayKey == dayKeys[getDayOfWeek(fromDate) + 1]
    IN IF schedule.kind # "object" THEN TRUE
       ELSE \/ dayKey \notin DOMAIN schedule.value
            \/ /\ ~hasPerformance(schedule.value[dayKey].m)
               /\ ~hasPerformance(schedule.value[dayKey].e)

\* lines 1588-1602: the schedule says no performance on the day of fromDate;
\* an exception inside the try block (JSON.parse, or the key lookup on null)
\* is swallowed
NoPerformanceThatDay(show, fromDate) ==
    LET schedule == JSONParse(show.schedule)
        dayKey == dayKeys[getDayOfWeek(fromDate) + 1]
    IN IF schedule.kind # "object" THEN FALSE
       ELSE \/ dayKey \notin DOMAIN schedule.value
            \/ /\ ~hasPerformance(schedule.value[dayKey].m)
               /\ ~hasPerformance(schedule.value[dayKey].e)

\* isShowActive with the run's last day excluded (end > fromDate)
isShowActiveEndExclusive(show, fromDate, toDate) ==
    LET start == show.start_date
        end == IF Truthy(show.end_date) THEN show.end_date ELSE SentinelEnd
    IN IF ~(StrLE(start, toDate) /\ StrLE(fromDate, end) /\ fromDate # end) THEN FALSE
       ELSE IF fromDate = toDate /\ Truthy(show.schedule)
                /\ NoPerformanceThatDay(show, fromDate) THEN FALSE
       ELSE TRUE

\* isShowActive with an open run ended at the close of the year 2025
isShowActiveNearSentinel(show, fromDate, toDate) ==
    LET start == show.start_date
        end == IF Truthy(show.end_date) THEN show.end_date ELSE IsoDate(2025, 12, 31)
    IN IF ~(StrLE(start, toDate) /\ StrLE(fromDate, end)) THEN FALSE
       ELSE IF fromDate = toDate /\ Truthy(show.schedule)
                /\ NoPerformanceThatDay(show, fromDate) THEN FALSE
       ELSE TRUE

isShowActive(show, fromDate, toDate) ==
    LET start == show.start_date
        end == IF Truthy(show.end_date) THEN show.end_date ELSE SentinelEnd
    IN IF ~(StrLE(start, toDate) /\ StrLE(fromDate, end)) THEN FALSE
       ELSE IF fromDate = toDate /\ Truthy(show.schedule)
                /\ NoPerformanceThatDay(show, fromDate) THEN FALSE
       ELSE TRUE

FilterDates ==
    {IsoDate(2024, 12, 31), IsoDate(2025, 1, 1), IsoDate(2025, 6, 4),
     IsoDate(2025, 6, 5), IsoDate(2025, 12, 31), IsoDate(2026, 1, 1),
     IsoDate(9999, 12, 31)}

InitView ==
    /\ musicals = <<>>
    /\ nextId = 1
    /\ imp = [p \in Procs |-> IdleImport]
    /\ mig = IdleMigrate
    /\ response = NoResponse
    /\ writer = <<>>
    /\ prev = Disturbed
    /\ env = Configured
    /\ view \in [show : [start_date : FilterDates,
                         end_date : FilterDates \cup {NULL},
                         schedule : ScheduleTexts \cup {NULL}],
                 fromDate : FilterDates, toDate : FilterDates,
                 rendered : {FALSE}, active : {FALSE}]

\* render(): allMusicals.filter(m => isShowActive(m, fromDate, toDate))
Render ==
    /\ ~view.rendered
    /\ view' = [view EXCEPT !.rendered = TRUE,
                  !.active = isShowActive(view.show, view.fromDate, view.toDate)]
    /\ UNCHANGED <<musicals, nextId, imp, mig, response, writer, prev, env>>

\* the visitor picks another date range
SetRange(fromDate, toDate) ==
    /\ view.rendered
    /\ view' = [view EXCEPT !.fromDate = fromDate, !.toDate = toDate,
                            !.rendered = FALSE, !.active = FALSE]
    /\ UNCHANGED <<musicals, nextId, imp, mig, response, writer, prev, env>>

NextView ==
    \/ Render
    \/ \E fromDate \in FilterDates, toDate \in FilterDates : SetRange(fromDate, toDate)

SpecView == InitView /\ [][NextView]_vars

\* ------------------------------------------------- two imports at once
\* two import requests in flight, interleaved at each await
Racers == {"p1", "p2"}


InitRace ==
    /\ musicals = <<>>
    /\ nextId = 1
    /\ imp = [p \in Racers |-> IdleImport]
    /\ mig = IdleMigrate
    /\ response = NoResponse
    /\ writer = <<>>
    /\ prev = Disturbed
    /\ env = Configured
    /\ view = NoView

NextRace ==
    \/ \E p \in Racers, records \in {<<RowA>>, <<RowA2>>, <<RowK, RowA>>} :
          ImportStart(p, records)
    \/ \E p \in Racers : ImportLookup(p)
    \/ \E p \in Racers : ImportUpdate(p)
    \/ \E p \in Racers : ImportInsert(p)
    \/ \E p \in Racers : ImportFinish(p)

SpecRace == InitRace /\ [][NextRace]_vars

\* ------------------------------------------- run-ids of arbitrary titles
\* one character of each class the replacements tell apart
SlugAlphabet == {"K", "2", "'", " ", "-", "!"}

\* a table of one legacy listing with any title and venue; the migration
\* generates its run-id
InitSlug ==
    /\ \E title \in UNION {[1..n -> SlugAlphabet] : n \in 0..MaxLen},
          venue \in {<<"V">>, <<"-", "v", " ", " ", "b", "!">>, <<"'", "-">>} :
          musicals = <<[Legacy(title, Date1) EXCEPT !.venue_name = venue]>>
    /\ nextId = 2
    /\ imp = [p \in Procs |-> IdleImport]
    /\ mig = IdleMigrate
    /\ response = NoResponse
    /\ writer = <<"legacy">>
    /\ prev = Disturbed
    /\ env = Configured
    /\ view = NoView

NextSlug ==
    \/ MigrateStart
    \/ MigrateRow
    \/ MigrateFinish

SpecSlug == InitSlug /\ [][NextSlug]_vars

\* --------------------------------------------------- the admin form
\* const days = ['mon', 'tue', 'wed', 'thu', 'fri', 'sat', 'sun']
days == <<"mon", "tue", "wed", "thu", "fri", "sat", "sun">>

\* the time inputs of one day: sch_<day>_m and sch_<day>_e
BlankCell == [m |-> EmptyStr, e |-> EmptyStr]
EveningCell == [m |-> EmptyStr, e |-> <<"19:30">>]
BothCell == [m |-> <<"14:30">>, e |-> <<"19:30">>]

\* the schedule grid as filled in: an evening on any set of days, with a
\* matinee as well on a Saturday
Forms ==
    {[d \in 1..7 |-> IF days[d] \notin on THEN BlankCell
                     ELSE IF days[d] = "sat" THEN BothCell ELSE EveningCell] :
        on \in SUBSET {days[d] : d \in 1..7}}

\* getScheduleFromForm(): the JSON text of the days that have a time, or null
getScheduleFromForm(form) ==
    LET F[d \in 0..7] ==
            IF d = 0 THEN <<"{">>
            ELSE LET mat == form[d].m
                     eve == form[d].e
                 IN IF Truthy(mat) \/ Truthy(eve)
                    THEN F[d - 1] \o <<days[d], StringifyCell([m |-> OrNull(mat),
                                                               e |-> OrNull(eve)])>>
                    ELSE F[d - 1]
    IN IF Len(F[7]) > 1 THEN F[7] \o <<"}">> ELSE NULL

\* the body the form's submit handler sends
FormData(form) == [DataA EXCEPT !.schedule = getScheduleFromForm(form)]

\* submit of the form: POST for a new listing, PUT for the listing in editId
SubmitForm(form, editId) ==
    IF editId = 0 THEN AdminCreate(FormData(form))
    ELSE AdminUpdate(editId, FormData(form))

InitForm ==
    /\ musicals = <<>>
    /\ nextId = 1
    /\ imp = [p \in Procs |-> IdleImport]
    /\ mig = IdleMigrate
    /\ response = NoResponse
    /\ writer = <<>>
    /\ prev = Disturbed
    /\ env = Configured
    /\ view = NoView

NextForm ==
    \/ \E form \in Forms, editId \in 0..MaxId : SubmitForm(form, editId)
    \/ \E id \in 1..MaxId : AdminDelete(id)

SpecForm == InitForm /\ [][NextForm]_vars

\* ------------------------------------- an import among delete requests
\* an import of one row at a time, with admin deletes at each of its awaits
InitDelete ==
    /\ musicals = <<>>
    /\ nextId = 1
    /\ imp = [p \in Procs |-> IdleImport]
    /\ mig = IdleMigrate
    /\ response = NoResponse
    /\ writer = <<>>
    /\ prev = Disturbed
    /\ env = Configured
    /\ view = NoView

NextDelete ==
    \/ \E p \in Procs, records \in SingleRowBatches : ImportStart(p, records)
    \/ \E p \in Procs : ImportLookup(p)
    \/ \E p \in Procs : ImportUpdate(p)
    \/ \E p \in Procs : ImportInsert(p)
    \/ \E p \in Procs : ImportFinish(p)
    \/ \E id \in 1..MaxId : AdminDelete(id)

SpecDelete == InitDelete /\ [][NextDelete]_vars

\* ------------------------------------------------------------ the admin gate
AdminUsername == <<"admin">>

\* the Authorization header of a request: its scheme, whether what follows
\* the scheme is base64, and the text the base64 stands for
NoHeader == [scheme |-> "none", base64 |-> FALSE, credentials |-> <<>>]
Basic(credentials) == [scheme |-> "Basic", base64 |-> TRUE, credentials |-> credentials]
BasicGarbled == [scheme |-> "Basic", base64 |-> FALSE, credentials |-> <<>>]
Bearer == [scheme |-> "Bearer", base64 |-> TRUE, credentials |-> <<"token">>]

AuthHeaders ==
    {NoHeader, Bearer, BasicGarbled,
     Basic(AdminUsername \o <<":">> \o AdminPassword),
     Basic(AdminUsername \o <<":">> \o <<"guess">>),
     Basic(<<"root">> \o <<":">> \o AdminPassword),
     Basic(AdminUsername),
     Basic(AdminUsername \o <<":">> \o AdminPassword \o <<":">> \o <<"guess">>)}

\* credentials.split(':')
RECURSIVE split(_)
split(text) ==
    LET n == PrefixLen(text, {c \in {text[i] : i \in 1..Len(text)} : c # ":"})
    IN IF n = Len(text) THEN <<text>>
       ELSE <<SubSeq(text, 1, n)>> \o split(SubSeq(text, n + 2, Len(text)))

\* atob(base64Credentials) throws on text that is not base64
atobThrows(header) == header.scheme = "Basic" /\ ~header.base64

\* checkBasicAuth(request, env), for a header atob accepts
checkBasicAuth(header) ==
    /\ header.scheme = "Basic"
    /\ LET parts == split(header.credentials)
           username == parts[1]
           password == IF Len(parts) >= 2 THEN parts[2] ELSE UNDEFINED
       IN username = env.username /\ password = env.password

\* unauthorizedResponse()
unauthorizedResponse == [status |-> 401, body |-> "text", challenge |-> TRUE]

\* an exception no handler catches: the runtime answers in the worker's place
WorkerException == [status |-> 500, body |-> "exception"]

\* a JSON response that lists rows of the table
Listing(ids) == [status |-> 200, body |-> "result", ids |-> ids]

\* paths under /admin that no write handler serves
AdminRoutes == {"ui", "list", "unknown"}

\* fetch, lines 47-61: a request under /admin for the admin page, the list of
\* all listings, or a path handleAdminAPI does not know
AdminFetch(header, route) ==
    /\ UNCHANGED <<musicals, nextId, imp, mig, writer, prev, view, env>>
    /\ response' =
          IF header.scheme # "Basic" THEN unauthorizedResponse
          ELSE IF atobThrows(header) THEN WorkerException
          ELSE IF ~checkBasicAuth(header) THEN unauthorizedResponse
          ELSE IF route = "ui" THEN [status |-> 200, body |-> "html", ids |-> DOMAIN musicals]
          ELSE IF route = "list" THEN Listing(DOMAIN musicals)
          ELSE Json(404, "error")

\* ----------------------------------------------------------- the public API
\* WHERE start_date <= ? AND (end_date IS NULL OR end_date >= ?)
RunningOn(row, today) ==
    /\ StrLE(row.start_date, today)
    /\ row.end_date = NULL \/ StrLE(today, row.end_date)

\* a type filter applied whatever the category asked for
TypeFilterAlways(type) == Truthy(type)

\* type && ['West End', 'Off West End', 'Drama School'].includes(type)
TypeFilterApplies(type) == Truthy(type) /\ type \in Types

\* the ids of the rows the list query selects
SelectActive(table, today, type) ==
    {j \in DOMAIN table :
        /\ RunningOn(table[j], today)
        /\ TypeFilterApplies(type) => table[j].type = type}

\* a listing with a weekly schedule that has no Wednesday
DataWed == [BlankBody EXCEPT !.title = <<"K">>, !.type = OffWestEnd,
              !.schedule = SchedNoWed, !.end_date = NULL]

ApiBodies == {DataA, DataB, DataWed, DataOpera}

\* the server's clock: a Tuesday, a Wednesday, a Thursday, a Wednesday
Todays ==
    {IsoDate(2024, 12, 31), IsoDate(2025, 6, 4), IsoDate(2025, 6, 5),
     IsoDate(2025, 12, 31)}

\* url.searchParams.get('type'): null when the parameter is absent
TypeParams == {NULL, EmptyStr, WestEnd, OffWestEnd, DramaSchool, Opera, <<"west end">>}

\* GET /api/musicals[?type=X]
ApiList(today, type) ==
    /\ response' = Listing(SelectActive(musicals, today, type))
    /\ UNCHANGED <<musicals, nextId, imp, mig, writer, prev, view, env>>

\* a lookup of one listing that removes it
ApiGetAndRemove(id) ==
    /\ response' = IF id \in DOMAIN musicals THEN Listing({id}) ELSE Json(404, "error")
    /\ musicals' = Without(musicals, {id})
    /\ writer' = Without(writer, {id})
    /\ UNCHANGED <<nextId, imp, mig, prev, view, env>>

\* GET /api/musicals/{id}
ApiGet(id) ==
    /\ response' = IF id \in DOMAIN musicals THEN Listing({id}) ELSE Json(404, "error")
    /\ UNCHANGED <<musicals, nextId, imp, mig, writer, prev, view, env>>

\* GET /api/stats: SELECT type, COUNT(*) ... GROUP BY type
ApiStats(today) ==
    LET ids == SelectActive(musicals, today, NULL)
    IN /\ response' =
             [status |-> 200, body |-> "result",
              counts |-> [t \in {musicals[j].type : j \in ids} |->
                            Cardinality({j \in ids : musicals[j].type = t})]]
       /\ UNCHANGED <<musicals, nextId, imp, mig, writer, prev, view, env>>

\* OPTIONS on a path under /api/
ApiOptions ==
    /\ response' = Json(200, "none")
    /\ UNCHANGED <<musicals, nextId, imp, mig, writer, prev, view, env>>

\* any other path or method under /api/
ApiNotFound ==
    /\ response' = [status |-> 404, body |-> "text"]
    /\ UNCHANGED <<musicals, nextId, imp, mig, writer, prev, view, env>>

\* the public page and the /showcards demo: every listing is sent to the page
PublicPage ==
    /\ response' = [status |-> 200, body |-> "html", ids |-> DOMAIN musicals]
    /\ UNCHANGED <<musicals, nextId, imp, mig, writer, prev, view, env>>

\* scheduled(): the daily job counts the running listings and logs the count
scheduled(today) ==
    /\ Cardinality(SelectActive(musicals, today, NULL)) >= 0
    /\ UNCHANGED vars

\* an empty table; admin requests fill it, every route reads it
InitApi ==
    /\ musicals = <<>>
    /\ nextId = 1
    /\ imp = [p \in Procs |-> IdleImport]
    /\ mig = IdleMigrate
    /\ response = NoResponse
    /\ writer = <<>>
    /\ prev = Disturbed
    /\ env = Configured
    /\ view = NoView

NextApi ==
    \/ \E data \in ApiBodies : AdminCreate(data)
    \/ \E id \in 1..MaxId, data \in ApiBodies : AdminUpdate(id, data)
    \/ \E id \in 1..MaxId : AdminDelete(id)
    \/ \E password \in Passwords : DeleteAll(password)
    \/ \E header \in AuthHeaders, route \in AdminRoutes : AdminFetch(header, route)
    \/ \E today \in Todays, type \in TypeParams : ApiList(today, type)
    \/ \E id \in 1..MaxId : ApiGet(id)
    \/ \E today \in Todays : ApiStats(today)
    \/ ApiOptions
    \/ ApiNotFound
    \/ PublicPage
    \/ \E today \in Todays : scheduled(today)

SpecApi == InitApi /\ [][NextApi]_vars

\* ---- the admin gate under any configured password ----

\* values env.ADMIN_PASSWORD may be set to: text with no colon, text with a
\* colon inside it, and text that starts with a colon
ConfiguredPasswords == {AdminPassword, <<"se", ":", "cret">>, <<":", "x">>}

\* a deployment with any of the passwords and an empty table
InitAuth ==
    /\ musicals = <<>>
    /\ nextId = 1
    /\ imp = [p \in Procs |-> IdleImport]
    /\ mig = IdleMigrate
    /\ response = NoResponse
    /\ writer = <<>>
    /\ prev = Disturbed
    /\ env \in [username : {AdminUsername}, password : ConfiguredPasswords]
    /\ view = NoView

NextAuth ==
    \/ \E data \in ApiBodies : AdminCreate(data)
    \/ \E header \in AuthHeaders \cup
                      {Basic(env.username \o <<":">> \o env.password),
                       Basic(env.username \o <<":">> \o split(env.password)[1])},
          route \in AdminRoutes : AdminFetch(header, route)
    \/ \E password \in ConfiguredPasswords : DeleteAll(password)

SpecAuth == InitAuth /\ [][NextAuth]_vars

\* ================================================================= claims
\* the day count order of two YYYY-MM-DD texts: a is on or before b
DateNum(dateStr) ==
    LET parts == SplitDate(dateStr)
    IN parseInt(parts[1]) * 10000 + parseInt(parts[2]) * 100 + parseInt(parts[3])

OnOrBefore(a, b) == DateNum(a) <= DateNum(b)

\* the interval overlap test on calendar dates, an absent end date lying
\* after every window
Overlaps(show, windowStart, windowEnd) ==
    /\ OnOrBefore(show.start_date, windowEnd)
    /\ show.end_date = NULL \/ OnOrBefore(windowStart, show.end_date)

\* C9: for a listing without a schedule, or a window of more than one day,
\* is_active is true exactly when the run and the window overlap:
\* start_date <= window_end and effective_end >= window_start.
C9_BaseCondition ==
    (view.rendered /\ (view.show.schedule = NULL \/ view.fromDate # view.toDate))
        => (view.active <=> Overlaps(view.show, view.fromDate, view.toDate))

\* a listing with a schedule and an end date, shown for a window of several
\* days that ends on the first day of its run
C9_Witness ==
    /\ view.rendered /\ view.active
    /\ view.show.schedule = SchedNoWed /\ view.show.end_date # NULL
    /\ view.fromDate # view.toDate
    /\ view.toDate = view.show.start_date

\* C10 as stated: an open-run listing is active for every window that starts
\* on or after its start date.
C10_OpenRunAnyWindow ==
    (/\ view.rendered
     /\ view.show.end_date = NULL
     /\ OnOrBefore(view.show.start_date, view.fromDate)
     /\ OnOrBefore(view.fromDate, view.toDate))
        => view.active

\* C10 amended: an open-run listing is active for every window that starts on
\* or after its start date, however far in the future, except a single-day
\* window on a weekday for which its schedule lists no performance.
C10_OpenRunUnlessDarkDay ==
    (/\ view.rendered
     /\ view.show.end_date = NULL
     /\ OnOrBefore(view.show.start_date, view.fromDate)
     /\ OnOrBefore(view.fromDate, view.toDate)
     /\ ~(/\ view.fromDate = view.toDate
          /\ view.show.schedule # NULL
          /\ NoPerformanceThatDay(view.show, view.fromDate)))
        => view.active

\* an open run shown for the last day a date can name
C10_Witness ==
    /\ view.rendered /\ view.active
    /\ view.show.end_date = NULL
    /\ view.show.start_date = IsoDate(2025, 1, 1)
    /\ view.fromDate = IsoDate(9999, 12, 31)
    /\ view.toDate = IsoDate(9999, 12, 31)

\* ------------------------------------------------------- import, row steps
\* import p completes the write of its current row in this step
WriteStep(p) == imp[p].pc = "write" /\ imp'[p].pc = "loop"

\* import p records a failure of its current row in this step
FailStep(p) == Len(imp'[p].errors) = Len(imp[p].errors) + 1

CurrentRow(p) == imp[p].records[imp[p].i]

NewIds == DOMAIN musicals' \ DOMAIN musicals

\* C1 as stated: every row either finds its run-id, creates nothing and adds
\* one to updated, or creates exactly one listing with that run-id and adds one
\* to inserted.
C1_EveryRowUpserts ==
    [][\A p \in Procs : WriteStep(p) =>
          IF imp[p].existing # {}
          THEN /\ NewIds = {}
               /\ imp'[p].updated = imp[p].updated + 1
          ELSE /\ Cardinality(NewIds) = 1
               /\ \A j \in NewIds : musicals'[j].run_id = imp[p].runId
               /\ imp'[p].inserted = imp[p].inserted + 1]_vars

\* C1 amended: a row whose write the store accepts either found its run-id,
\* creates nothing and adds one to updated (and nothing to inserted), or
\* creates exactly one listing with that run-id and adds one to inserted (and
\* nothing to updated); a row whose write the store rejects creates no listing
\* and changes neither count.
C1_AcceptedRowUpserts ==
    [][\A p \in Procs : WriteStep(p) =>
          IF FailStep(p)
          THEN /\ NewIds = {}
               /\ imp'[p].updated = imp[p].updated
               /\ imp'[p].inserted = imp[p].inserted
          ELSE IF imp[p].existing # {}
          THEN /\ NewIds = {}
               /\ imp'[p].updated = imp[p].updated + 1
               /\ imp'[p].inserted = imp[p].inserted
          ELSE /\ Cardinality(NewIds) = 1
               /\ \A j \in NewIds : musicals'[j].run_id = imp[p].runId
               /\ DOMAIN musicals \subseteq DOMAIN musicals'
               /\ imp'[p].inserted = imp[p].inserted + 1
               /\ imp'[p].updated = imp[p].updated]_vars

\* a row has found its run-id stored beside another listing and has updated
\* that listing, which an earlier request had inserted
C1_Witness ==
    \E p \in Procs :
        /\ imp[p].pc = "loop" /\ imp[p].i = 2
        /\ imp[p].records = <<RowA2>>
        /\ imp[p].inserted = 0 /\ imp[p].updated = 1
        /\ Cardinality(DOMAIN musicals) = 2
        /\ \E j \in DOMAIN musicals :
              /\ musicals[j].run_id = ImportRunId(RowA)
              /\ musicals[j].title = RowA2.title

\* C2: a batch of rows that all succeed, with pairwise distinct run-ids none
\* of which is stored, run twice in succession: the first run reports
\* inserted = n, updated = 0, the second inserted = 0, updated = n, and the
\* table holds the same values after both.
C2_ImportIdempotent ==
    (/\ prev.quiet
     /\ Len(prev.runs) = 2
     /\ prev.runs[1].records = prev.runs[2].records
     /\ prev.runs[1].fresh
     /\ prev.runs[1].errors = <<>>)
        => LET n == Len(prev.runs[1].records)
           IN /\ prev.runs[1].inserted = n /\ prev.runs[1].updated = 0
              /\ prev.runs[2].inserted = 0 /\ prev.runs[2].updated = n
              /\ prev.runs[2].errors = <<>>
              /\ prev.runs[2].after = prev.runs[1].after
              /\ musicals = prev.runs[1].after

\* a batch of two rows was imported into a table holding neither, then again
C2_Witness ==
    /\ prev.quiet
    /\ Len(prev.runs) = 2
    /\ prev.runs[1].fresh
    /\ prev.runs[1].errors = <<>>
    /\ Len(prev.runs[1].records) = 2
    /\ prev.runs[2].updated = 2
    /\ Cardinality(DOMAIN musicals) = 2

\* C3: a row that fails is recorded in errors under its title, counts neither
\* as inserted nor as updated, leaves the rows written before it in place, and
\* the loop goes on to the next row; every row of the batch is processed.
C3_FailureIsolated ==
    /\ [][\A p \in Procs : FailStep(p) =>
             /\ imp'[p].errors[Len(imp'[p].errors)].row = CurrentRow(p).title
             /\ imp'[p].inserted = imp[p].inserted
             /\ imp'[p].updated = imp[p].updated
             /\ musicals' = musicals
             /\ imp'[p].pc = "loop"
             /\ imp'[p].i = imp[p].i + 1
             /\ imp'[p].records = imp[p].records]_vars
    /\ [](\A p \in Procs : imp[p].pc = "loop" =>
             imp[p].inserted + imp[p].updated + Len(imp[p].errors) = imp[p].i - 1)
    /\ [][\A p \in Procs : (imp[p].pc = "loop" /\ imp'[p].pc = "idle") =>
             imp[p].i = Len(imp[p].records) + 1]_vars

\* a request whose first row failed has gone on and inserted its second row
C3_Witness ==
    \E p \in Procs :
        /\ imp[p].pc = "loop" /\ imp[p].i = 3
        /\ Len(imp[p].errors) = 1 /\ imp[p].inserted = 1
        /\ imp[p].errors[1].row = imp[p].records[1].title
        /\ imp[p].records[1].type = Opera

\* C4: no two stored listings have the same non-null run-id.
C4_RunIdUnique ==
    \A j, k \in DOMAIN musicals :
        (j # k /\ musicals[j].run_id # NULL) => musicals[j].run_id # musicals[k].run_id

\* two listings with run-ids are stored and the request that completed last
\* was rejected
C4_Witness ==
    /\ Cardinality(DOMAIN musicals) = 2
    /\ \A j \in DOMAIN musicals : musicals[j].run_id # NULL
    /\ response.status = 500

RunIdOfFields(row) == generateRunId(row.title, row.venue_name, row.start_date)

ExpectedRunId(row) ==
    IF /\ row.run_id \notin {UNDEFINED, NULL}
       /\ \E i \in 1..Len(row.run_id) : row.run_id[i] \notin WhiteChars
    THEN trim(row.run_id)
    ELSE RunIdOfFields(row)

\* C6: the run-id an import row is looked up by and written under is the
\* row's own run_id, trimmed, when present and not blank, and otherwise
\* generate_run_id(row.title, row.venue_name, row.start_date).
C6_ImportRunId ==
    /\ [][\A p \in Procs : (imp[p].pc = "loop" /\ imp'[p].pc = "write") =>
             /\ imp'[p].runId = ExpectedRunId(CurrentRow(p))
             /\ imp'[p].existing =
                    {j \in DOMAIN musicals :
                        musicals[j].run_id = ExpectedRunId(CurrentRow(p))}]_vars
    /\ [][\A p \in Procs : (WriteStep(p) /\ ~FailStep(p)) =>
             /\ \A j \in NewIds : musicals'[j].run_id = ExpectedRunId(CurrentRow(p))
             /\ \A j \in DOMAIN musicals :
                   musicals'[j] # musicals[j] =>
                       /\ musicals[j].run_id = ExpectedRunId(CurrentRow(p))
                       /\ musicals'[j].run_id = ExpectedRunId(CurrentRow(p))]_vars

\* a row whose own run_id is padded with white space is about to be written
C6_Witness ==
    \E p \in Procs :
        /\ imp[p].pc = "write"
        /\ CurrentRow(p).run_id # trim(CurrentRow(p).run_id)
        /\ imp[p].runId = <<"k">>
        /\ imp[p].existing # {}

PriceFields == {"price_from", "lottery_price", "rush_price"}

\* the text, white space skipped, begins with a decimal number
NumericPrefix(text) ==
    LET u == SubSeq(text, PrefixLen(text, WhiteChars) + 1, Len(text))
        v == IF u # <<>> /\ Head(u) = "-" THEN Tail(u) ELSE u
    IN /\ v # <<>>
       /\ \/ v[1] \in DigitChars
          \/ v[1] = "." /\ Len(v) >= 2 /\ v[2] \in DigitChars

\* the value C7 names for a field of a row: absent when the row leaves it
\* empty, the number read from a price text, the text itself otherwise
RowValue(row, f) ==
    IF f \in Required THEN row[f]
    ELSE IF row[f] = EmptyStr THEN NULL
    ELSE IF f \in PriceFields
         THEN (IF NumericPrefix(row[f]) THEN parseFloat(row[f]) ELSE NULL)
    ELSE row[f]

\* C7: after an import row updates a listing, every data field of the listing
\* holds the value derived from the row, absent where the row leaves it empty.
C7_UpdateReplacesAll ==
    [][\A p \in Procs : (WriteStep(p) /\ ~FailStep(p) /\ imp[p].existing # {}) =>
          \A j \in DOMAIN musicals :
              musicals[j].run_id = imp[p].runId =>
                  /\ j \in DOMAIN musicals'
                  /\ \A f \in DataFields : musicals'[j][f] = RowValue(CurrentRow(p), f)]_vars

\* a listing inserted with a ticket URL and a price was updated by a row that
\* leaves the URL empty and has an unreadable price
C7_Witness ==
    \E p \in Procs :
        /\ imp[p].pc = "loop" /\ imp[p].i = 3
        /\ imp[p].records = <<RowA, RowA2>>
        /\ imp[p].inserted = 1 /\ imp[p].updated = 1
        /\ \E j \in DOMAIN musicals :
              /\ musicals[j].run_id = ImportRunId(RowA)
              /\ musicals[j].title = RowA2.title
              /\ musicals[j].ticket_url = NULL
              /\ musicals[j].description = RowA2.description

\* C8: a price text that is blank or cannot be read as a number is stored as
\* absent, by an insert and by an update alike.
C8_UnreadablePriceAbsent ==
    [][\A p \in Procs : (WriteStep(p) /\ ~FailStep(p)) =>
          \A f \in PriceFields :
              ~NumericPrefix(CurrentRow(p)[f]) =>
                  /\ \A j \in NewIds : musicals'[j][f] = NULL
                  /\ \A j \in DOMAIN musicals :
                        musicals[j].run_id = imp[p].runId => musicals'[j][f] = NULL]_vars

\* the row with the price "x" and the blank rush price has been inserted
C8_Witness ==
    \E p \in Procs :
        /\ imp[p].pc = "loop" /\ imp[p].i = 2
        /\ imp[p].records[1] = RowA2
        /\ imp[p].inserted = 1
        /\ \E j \in DOMAIN musicals :
              /\ musicals[j].title = RowA2.title
              /\ musicals[j].price_from = NULL
              /\ musicals[j].rush_price = NULL
              /\ musicals[j].lottery_price = Num(<<"7", ".", "5">>)

\* ------------------------------------------------------ weekday refinement
\* the calendar's weekday of the dates the page is filtered by
Weekday(dateStr) ==
    CASE dateStr = IsoDate(2024, 12, 31) -> "tue"
      [] dateStr = IsoDate(2025, 1, 1) -> "wed"
      [] dateStr = IsoDate(2025, 6, 4) -> "wed"
      [] dateStr = IsoDate(2025, 6, 5) -> "thu"
      [] dateStr = IsoDate(2025, 12, 31) -> "wed"
      [] dateStr = IsoDate(2026, 1, 1) -> "thu"
      [] dateStr = IsoDate(9999, 12, 31) -> "fri"

\* the schedule has an entry for the weekday with a time that is not null
EntryWithNonNullTime(show, dateStr) ==
    LET schedule == JSONParse(show.schedule)
    IN /\ schedule.kind = "object"
       /\ Weekday(dateStr) \in DOMAIN schedule.value
       /\ \/ schedule.value[Weekday(dateStr)].m # NULL
          \/ schedule.value[Weekday(dateStr)].e # NULL

\* the schedule has an entry for the weekday with a performance: a time text
\* that is not empty, or a true flag of the old format
EntryWithPerformance(show, dateStr) ==
    LET schedule == JSONParse(show.schedule)
    IN /\ schedule.kind = "object"
       /\ Weekday(dateStr) \in DOMAIN schedule.value
       /\ \E k \in {"m", "e"} :
             schedule.value[Weekday(dateStr)][k] \notin {NULL, EmptyStr, JsFalse}

\* the schedule text is no JSON, or is the JSON null
ScheduleUnreadable(show) == JSONParse(show.schedule).kind # "object"

\* C11 as stated: for a single-day window that overlaps the run of a listing
\* with a schedule, the listing is active iff the schedule has an entry for
\* the window's weekday with a non-null time; for a window of several days the
\* schedule is not consulted.
C11_WeekdayEntryDecides ==
    view.rendered =>
        IF view.fromDate = view.toDate
        THEN (view.show.schedule # NULL
                 /\ Overlaps(view.show, view.fromDate, view.toDate))
                => (view.active <=> EntryWithNonNullTime(view.show, view.fromDate))
        ELSE view.active <=> Overlaps(view.show, view.fromDate, view.toDate)

\* C11 amended: for a single-day window that overlaps the run of a listing
\* with a schedule, the listing is active iff the schedule has an entry for
\* the window's weekday with a performance (a non-empty time text or a true
\* flag), or the schedule text cannot be read (no JSON, or null); for a window
\* of several days the schedule is not consulted.
C11_WeekdayEntryOrUnreadable ==
    view.rendered =>
        IF view.fromDate = view.toDate
        THEN (view.show.schedule # NULL
                 /\ Overlaps(view.show, view.fromDate, view.toDate))
                => (view.active <=>
                       \/ EntryWithPerformance(view.show, view.fromDate)
                       \/ ScheduleUnreadable(view.show))
        ELSE view.active <=> Overlaps(view.show, view.fromDate, view.toDate)

\* a running listing without a Wednesday entry, left out on a single Wednesday
C11_Witness ==
    /\ view.rendered /\ ~view.active
    /\ view.show.schedule = SchedNoWed
    /\ view.fromDate = IsoDate(2025, 6, 4) /\ view.toDate = IsoDate(2025, 6, 4)
    /\ Overlaps(view.show, view.fromDate, view.toDate)

\* C12: GET /api/musicals without a type filter returns exactly the stored
\* listings for which isShowActive(listing, today, today) holds, the set the
\* page's predicate yields for the single-day window [today, today].
C12_ServerListIsActive ==
    [][\A today \in Todays :
          ApiList(today, NULL) =>
              response'.ids =
                  {j \in DOMAIN musicals : isShowActive(musicals[j], today, today)}]_vars

\* the header carries the configured user name and the configured password:
\* the user name up to the first colon, the password everything after it
CredentialsMatch(header) ==
    /\ header.scheme = "Basic"
    /\ header.base64
    /\ header.credentials = AdminUsername \o <<":">> \o AdminPassword

\* C13: every request under /admin whose Basic credentials do not match both
\* configured secrets is answered with 401 and a WWW-Authenticate challenge,
\* reaches no admin handler, and leaves the store unchanged.
C13_AdminGate ==
    [][\A header \in AuthHeaders, route \in AdminRoutes :
          (AdminFetch(header, route) /\ ~CredentialsMatch(header)) =>
              /\ response' = unauthorizedResponse
              /\ musicals' = musicals]_vars

\* C14: POST /admin/api/delete-all removes every listing when the body
\* password equals the configured admin password; when it differs, the
\* request returns an error and every listing in the store is unchanged.
C14_DeleteAllConfirmed ==
    [][\A password \in Passwords :
          DeleteAll(password) =>
              IF password = AdminPassword
              THEN musicals' = <<>> /\ response'.status = 200
              ELSE /\ response'.status >= 400
                   /\ response'.body = "error"
                   /\ musicals' = musicals]_vars

\* a wrong password was refused while the store holds listings
C14_Witness ==
    /\ response = Json(401, "error")
    /\ musicals # <<>>

\* a request outside /admin, or a run of the daily job
PublicStep ==
    \/ \E today \in Todays, type \in TypeParams : ApiList(today, type)
    \/ \E id \in 1..MaxId : ApiGet(id)
    \/ \E today \in Todays : ApiStats(today)
    \/ ApiOptions
    \/ ApiNotFound
    \/ PublicPage
    \/ \E today \in Todays : scheduled(today)

\* C15: no request outside /admin (the list, the lookup by id, the stats,
\* OPTIONS, the HTML pages) and no run of the daily scheduled job adds,
\* changes or deletes a listing: a step that changes the table is none of them.
C15_PublicReadOnly ==
    [][(musicals' # musicals \/ nextId' # nextId) => ~PublicStep]_vars

\* the stats were served from a store that holds listings
C15_Witness ==
    /\ "counts" \in DOMAIN response
    /\ DOMAIN response.counts # {}
    /\ musicals # <<>>

\* the step on which POST /admin/api/migrate-run-ids returns its response
MigrateReturns == mig.pc = "loop" /\ mig'.pc = "idle"

\* C16: after POST /admin/api/migrate-run-ids returns, no stored listing lacks
\* a run-id, and each listing that lacked one has
\* run_id = generateRunId(title, venue_name, start_date).
C16_MigrationBackfills ==
    [][MigrateReturns =>
          /\ \A j \in DOMAIN musicals' : musicals'[j].run_id # NULL
          /\ \A k \in 1..Len(mig.results) :
                LET id == mig.results[k].id
                IN id \in DOMAIN musicals' =>
                      musicals'[id].run_id =
                          generateRunId(musicals'[id].title, musicals'[id].venue_name,
                                        musicals'[id].start_date)]_vars

\* each stored listing's category is one of the three enumerated values
CategoryEnumerated == \A j \in DOMAIN musicals : musicals[j].type \in Types

\* the request is answered with an error and the table is as it was
Rejected == response'.status >= 400 /\ musicals' = musicals

\* C17: in every reachable state each stored listing's category is one of the
\* three enumerated values; an admin create, an admin update or an import row
\* carrying any other category is rejected by the write path and adds or
\* changes no listing.
C17_CategoryInvariant ==
    /\ []CategoryEnumerated
    /\ [][/\ \A data \in Bodies :
                (data.type \notin Types /\ AdminCreate(data)) => Rejected
          /\ \A id \in 1..MaxId, data \in Bodies :
                (data.type \notin Types /\ AdminUpdate(id, data)) => Rejected
          /\ \A p \in Procs :
                (WriteStep(p) /\ CurrentRow(p).type \notin Types) =>
                    (FailStep(p) /\ musicals' = musicals)]_vars

\* the listing's run includes the day, with dates compared as calendar dates
RunsOn(row, day) ==
    /\ OnOrBefore(row.start_date, day)
    /\ row.end_date = NULL \/ OnOrBefore(day, row.end_date)

\* C18: GET /api/musicals?type=X with X outside the fixed enumeration returns
\* the same listings as GET /api/musicals with no type parameter, and with X
\* inside the enumeration returns exactly the active listings of category X:
\* stated of the rows the list query selects on the stored table.
C18_UnknownTypeIgnored ==
    \A today \in Todays, type \in TypeParams \ {NULL} :
        SelectActive(musicals, today, type) =
            IF type \in {WestEnd, OffWestEnd, DramaSchool}
            THEN {j \in DOMAIN musicals :
                     RunsOn(musicals[j], today) /\ musicals[j].type = type}
            ELSE SelectActive(musicals, today, NULL)

\* a list response that holds running listings of two categories
C18_Witness ==
    /\ "ids" \in DOMAIN response
    /\ response.body = "result"
    /\ response.ids \subseteq DOMAIN musicals
    /\ \E j, k \in response.ids : musicals[j].type # musicals[k].type
    /\ \E today \in Todays : response.ids = SelectActive(musicals, today, Opera)

\* the response reports an error and was written by handleAPI or
\* handleAdminAPI, not by the gate in front of them
HandlerError(r) ==
    /\ r.status >= 400
    /\ "challenge" \notin DOMAIN r
    /\ r.body # "exception"

\* C19 as stated: every error response of the public API and of the admin API
\* has a JSON body of the form {error: string} and status 404 or 500.
C19_JsonError404Or500 ==
    HandlerError(response) => (response.body = "error" /\ response.status \in {404, 500})

\* C19: every error response of the two API handlers is a JSON {error: string}
\* with status 404 or 500, or the JSON {error} with status 401 that delete-all
\* returns for a wrong password, or the plain-text 404 that the public API
\* returns for an unknown path or method.
C19_ErrorShapes ==
    /\ [](HandlerError(response) =>
             \/ response.body = "error" /\ response.status \in {404, 500}
             \/ response = Json(401, "error")
             \/ response = [status |-> 404, body |-> "text"])
    /\ [][(response' # response /\ response' = Json(401, "error")) =>
             \E password \in Passwords \ {AdminPassword} : DeleteAll(password)]_vars
    /\ [][(response' # response /\ response' = [status |-> 404, body |-> "text"]) =>
             ApiNotFound]_vars

\* the public API has answered an unknown path in plain text
C19_Witness ==
    /\ response = [status |-> 404, body |-> "text"]
    /\ musicals # <<>>

\* import p inserts in this step although its run-id, absent when p looked it
\* up, has been stored since
LosesRace(p) ==
    /\ WriteStep(p)
    /\ imp[p].existing = {}
    /\ SelectByRunId(musicals, imp[p].runId) # {}

\* C20: in every interleaving of two imports that each contain a row with the
\* same not-yet-stored run-id, the store never holds two listings with that
\* run-id; the insert that loses the race is rejected as a duplicate key,
\* recorded in that import's errors, and not counted as inserted.
C20_RaceRejected ==
    /\ [](\A j, k \in DOMAIN musicals :
             musicals[j].run_id = musicals[k].run_id => j = k)
    /\ [][\A p \in Racers : LosesRace(p) =>
             /\ FailStep(p)
             /\ imp'[p].errors[Len(imp'[p].errors)] =
                    [row |-> CurrentRow(p).title, error |-> "UNIQUE constraint failed"]
             /\ imp'[p].inserted = imp[p].inserted
             /\ imp'[p].updated = imp[p].updated
             /\ musicals' = musicals]_vars

\* one import holds a duplicate-key error and counted no insert, while the
\* run-id is stored once
C20_Witness ==
    \E p \in DOMAIN imp :
        /\ imp[p].errors # <<>>
        /\ imp[p].errors[1].error = "UNIQUE constraint failed"
        /\ imp[p].inserted = 0
        /\ Cardinality(SelectByRunId(musicals, ImportRunId(RowA))) = 1

\* only a-z, 0-9 and hyphen, no two hyphens in a row, no hyphen at either end
SlugShape(s) ==
    /\ \A i \in 1..Len(s) : s[i] \in LowerChars \cup DigitChars \cup {"-"}
    /\ \A i \in 1..Len(s) - 1 : ~(s[i] = "-" /\ s[i + 1] = "-")
    /\ s # <<>> => (s[1] # "-" /\ s[Len(s)] # "-")

\* C21: each normalized component produced by generateRunId contains only
\* a-z, 0-9 and hyphen, no two consecutive hyphens, and neither starts nor
\* ends with a hyphen; the run-id is norm_title, hyphen, norm_venue, hyphen,
\* the raw start-date string.
C21_SlugShape ==
    \A j \in DOMAIN musicals :
        writer[j] = "migrate" =>
            /\ SlugShape(normalize(musicals[j].title))
            /\ SlugShape(normalize(musicals[j].venue_name))
            /\ musicals[j].run_id =
                   normalize(musicals[j].title) \o <<"-">>
                       \o normalize(musicals[j].venue_name) \o <<"-">>
                       \o musicals[j].start_date

\* a run-id was generated from a title that ends in a space and a hyphen
C21_Witness ==
    /\ 1 \in DOMAIN musicals
    /\ writer[1] = "migrate"
    /\ musicals[1].title = <<"K", " ", "-">>
    /\ musicals[1].venue_name = <<"-", "v", " ", " ", "b", "!">>
    /\ musicals[1].run_id = <<"k", "-", "v", "-", "b", "-">> \o Date1

\* JSON.parse throws on the schedule text
ParseFails(show) == JSONParse(show.schedule).kind = "SyntaxError"

\* the text parses to null, on which the weekday lookup throws
LookupFails(show) == JSONParse(show.schedule).kind = "null"

\* C22: for a single-day window that overlaps a listing's run, if the
\* listing's schedule cannot be parsed or the weekday lookup in it fails,
\* isShowActive returns true.
C22_FailOpen ==
    (/\ view.rendered
     /\ view.fromDate = view.toDate
     /\ Overlaps(view.show, view.fromDate, view.toDate)
     /\ view.show.schedule # NULL
     /\ ParseFails(view.show) \/ LookupFails(view.show))
        => view.active

\* a listing with a schedule that is not JSON was rendered for one day of
\* its run
C22_Witness ==
    /\ view.rendered /\ view.active
    /\ view.show.schedule = SchedBroken
    /\ view.fromDate = IsoDate(2025, 6, 5) /\ view.toDate = IsoDate(2025, 6, 5)
    /\ Overlaps(view.show, view.fromDate, view.toDate)

\* two rows the import files under one run-id
SameRun(a, b) ==
    /\ HasOwnRunId(a) \/ ~generateRunIdThrows(a.title, a.venue_name)
    /\ HasOwnRunId(b) \/ ~generateRunIdThrows(b.title, b.venue_name)
    /\ ImportRunId(a) = ImportRunId(b)

\* the store accepts the row: its required fields are present and its
\* category is one of the three
Accepted(row) ==
    /\ \A f \in Required : row[f] \notin {NULL, UNDEFINED}
    /\ row.type \in {WestEnd, OffWestEnd, DramaSchool}

\* the listings stored under import p's current run-id after the step
StoredAfter(p) == {j \in DOMAIN musicals' : musicals'[j].run_id = imp[p].runId}

\* the current row is the first of its run-id, which is not stored
InsertsFirst(p) ==
    /\ imp'[p].inserted = imp[p].inserted + 1
    /\ imp'[p].updated = imp[p].updated
    /\ Cardinality(StoredAfter(p)) = 1

\* the current row updates the one listing of its run-id
UpdatesSecond(p) ==
    /\ imp'[p].updated = imp[p].updated + 1
    /\ imp'[p].inserted = imp[p].inserted
    /\ Cardinality(StoredAfter(p)) = 1
    /\ \A j \in StoredAfter(p), f \in DataFields :
          musicals'[j][f] = RowValue(CurrentRow(p), f)

SevenDayMapping(text) ==
    /\ JSONParse(text).kind = "object"
    /\ DOMAIN JSONParse(text).value = {dayKeys[d] : d \in 1..7}

\* C24: every stored listing whose weekly schedule is present has a schedule
\* that is a mapping over exactly the seven weekday keys, whether it was
\* written by the admin form, by admin create/update or by import.
C24_ScheduleSevenDays ==
    \A j \in DOMAIN musicals :
        musicals[j].schedule # NULL => SevenDayMapping(musicals[j].schedule)

\* the rows import p has accounted for
Counted(st) == st.inserted + st.updated + Len(st.errors)

\* C25: for every import request that returns a result, inserted + updated +
\* the number of entries in errors equals the number of rows in records, and
\* each row contributes to exactly one of the three.
C25_CountConservation ==
    /\ [](\A p \in Procs :
             imp[p].pc # "idle" =>
                 /\ Counted(imp[p]) = imp[p].i - 1
                 /\ imp[p].i <= Len(imp[p].records) + 1)
    /\ [][\A p \in Procs :
             (imp[p].pc # "idle" /\ imp'[p].pc = "idle") =>
                 Counted(imp[p]) = Len(imp[p].records)]_vars
    /\ [][\A p \in Procs :
             (imp[p].pc # "idle" /\ imp'[p].pc # "idle") =>
                 /\ imp'[p].inserted - imp[p].inserted \in {0, 1}
                 /\ imp'[p].updated - imp[p].updated \in {0, 1}
                 /\ Len(imp'[p].errors) - Len(imp[p].errors) \in {0, 1}
                 /\ Counted(imp'[p]) - Counted(imp[p]) = imp'[p].i - imp[p].i]_vars

\* a batch of two rows is through with one insert and one error
C25_Witness ==
    \E p \in Procs :
        /\ imp[p].pc = "loop" /\ imp[p].i = 3
        /\ imp[p].records = <<RowA, RowOpera>>
        /\ imp[p].inserted = 1 /\ imp[p].updated = 0
        /\ Len(imp[p].errors) = 1

\* C26: in every interleaving of an import with admin delete requests, each
\* row the import counts as updated corresponds to a listing with that run-id
\* that exists in the store immediately after the row's write and holds the
\* row's field values.
C26_UpdatedRowExists ==
    [][\A p \in Procs :
          (WriteStep(p) /\ imp'[p].updated = imp[p].updated + 1) =>
              \E j \in DOMAIN musicals' :
                  /\ musicals'[j].run_id = imp[p].runId
                  /\ \A f \in DataFields : musicals'[j][f] = RowValue(CurrentRow(p), f)]_vars

\* C27: an import row that updates an existing listing changes only the
\* listing whose run-id matches; that listing's identifier and run-id stay
\* the same, and every other listing in the store is unchanged.
C27_UpdateFrame ==
    [][\A p \in Procs :
          (WriteStep(p) /\ imp[p].existing # {}) =>
              /\ DOMAIN musicals' = DOMAIN musicals
              /\ nextId' = nextId
              /\ \A j \in DOMAIN musicals :
                    /\ musicals'[j].run_id = musicals[j].run_id
                    /\ musicals[j].run_id # imp[p].runId => musicals'[j] = musicals[j]]_vars

\* a row has updated one of two stored listings
C27_Witness ==
    \E p \in Procs :
        /\ imp[p].pc = "loop" /\ imp[p].i = 2
        /\ imp[p].records = <<RowA2>>
        /\ imp[p].updated = 1
        /\ Cardinality(DOMAIN musicals) = 2
        /\ \E j, k \in DOMAIN musicals :
              /\ musicals[j].description = <<"desc">>
              /\ musicals[k].run_id = <<"k">>

\* the store rejects the statement written for the body: the body binds, and
\* its category is outside the enumeration or its recomputed run-id is held
\* by a listing other than the one written (id 0: a new listing)
StoreRejects(id, data) ==
    /\ \A f \in Required : data[f] \notin {NULL, UNDEFINED}
    /\ \/ data.type \notin {WestEnd, OffWestEnd, DramaSchool}
       \/ LET runId == RunIdOfFields(data)
          IN \E j \in DOMAIN musicals \ {id} : musicals[j].run_id = runId

\* C28: when an admin create or admin update is rejected by the store (its
\* recomputed run-id equals that of another listing, or its category is
\* outside the enumeration), the response is status 500 with body
\* {error: message} and the listings and all their field values are exactly
\* as before the request: a step that ends otherwise is no such request.
C28_RejectedWriteNoChange ==
    [][(response' = Json(500, "error") /\ musicals' = musicals)
       \/ /\ \A data \in ApiBodies :
                StoreRejects(0, data) => ~AdminCreate(data)
          /\ \A id \in DOMAIN musicals, data \in ApiBodies :
                StoreRejects(id, data) => ~AdminUpdate(id, data)]_vars

\* an update of one of two stored listings was refused
C28_Witness ==
    /\ response = Json(500, "error")
    /\ Cardinality(DOMAIN musicals) = 2
    /\ \A j \in DOMAIN musicals : musicals[j].run_id # NULL
    /\ \E j \in DOMAIN musicals : writer[j] = "update"
    /\ \E j \in DOMAIN musicals : StoreRejects(j, DataA)
    /\ mig.pc = "idle"
    /\ \A p \in Procs : imp[p].pc = "idle"

\* C29: PUT /admin/api/musicals/{id} and DELETE /admin/api/musicals/{id} for
\* an identifier that matches no listing create no listing and leave every
\* stored listing unchanged: a step that changes the table is no such request.
C29_MissingIdNoChange ==
    [][musicals' # musicals =>
          \A id \in (1..MaxId) \ DOMAIN musicals :
              /\ ~AdminDelete(id)
              /\ \A data \in Bodies : ~AdminUpdate(id, data)]_vars

\* an update of an identifier that matches no listing was answered while
\* listings are stored
C29_Witness ==
    /\ response = Json(200, "null")
    /\ musicals # <<>>

\* ---- C30 ----

\* the header that encodes exactly the configured user name and password
ExactHeader == Basic(env.username \o <<":">> \o env.password)

\* C30: a request whose Basic header encodes exactly the configured user name
\* and the configured password passes checkBasicAuth and is never answered
\* 401, whatever the configured password, one that contains a colon included.
C30_ExactCredentialsPass ==
    [][\A route \in AdminRoutes :
          AdminFetch(ExactHeader, route) =>
              /\ checkBasicAuth(ExactHeader)
              /\ response'.status # 401]_vars

====
